---- MODULE Spec2Model ----
(***************************************************************************)
(* Library catalog: BooksService and BorrowingsService over the books and  *)
(* borrowings tables (TypeORM entities Book and Borrowing).                *)
(*                                                                         *)
(* Every handler is one action.  A storage call of a handler may throw:    *)
(* the input "fault" of an action names the call that throws when the      *)
(* handler reaches it ("none": every call answers).  Time is counted in    *)
(* ticks, TicksPerDay ticks to the day; a value written to a column of     *)
(* type 'date' keeps its day only.                                         *)
(***************************************************************************)
EXTENDS Integers, FiniteSets, Sequences, TLC

\* ------------------------------------------------------------------ bounds
MaxBooks == 2
MaxBorrowings == 2
MaxTime == 3
MaxLoanTime == 4
TicksPerDay == 2
MaxCalls == 2
MaxAuthors == 2
MaxLendingAuthors == 1

\* --------------------------------------------------------------- constants
DEFAULT_BORROW_DAYS == 14
NoDate == -1
NoId == 0

Isbns == {"111", "222"}
BorrowerNames == {"John Doe"}
BookIdInputs == 1..MaxBooks
AuthorIdInputs == 1..MaxAuthors
AuthorNames == {"Austen"}
BorrowingIdInputs == 1..MaxBorrowings
BorrowDaysInputs == {-1, 0, 1, DEFAULT_BORROW_DAYS}
BorrowerEmails == {"john.doe@example.com"}

\* calls: the service calls that are between two of their awaits, each with
\* what it holds in its local variables.
\* authors, nextAuthorId: the authors table and its id sequence.
VARIABLES books, nextBookId, borrowings, nextBorrowingId, now, last, calls,
          authors, nextAuthorId

vars == <<books, nextBookId, borrowings, nextBorrowingId, now, last, calls,
          authors, nextAuthorId>>

\* ----------------------------------------------------------------- storage
EmptyTable == [k \in {} |-> NoId]

\* A Date persisted into a column of type 'date' and read back: midnight of
\* the same day.
ToDateColumn(t) == (t \div TicksPerDay) * TicksPerDay

\* dueDate.setDate(dueDate.getDate() + borrowDays)
AddDays(t, n) == t + n * TicksPerDay

OpenStatus == {"BORROWED", "OVERDUE"}

\* Borrowing.book: ManyToOne(Book) joined on bookId.  The books row of a
\* borrowing cannot be deleted while the borrowing row refers to it.
BookReferencedNever(brs, id) == FALSE

BookReferenced(brs, id) == \E b \in DOMAIN brs : brs[b].bookId = id

\* Book.author: ManyToOne(Author) joined on authorId.  A books row is written
\* only with the authorId of a row of authors: the save of any other throws
\* (fault "foreignKey" in the result).
AuthorMissingUnchecked(as, authorId) == FALSE

AuthorMissing(as, authorId) == authorId \notin DOMAIN as

\* The books rows whose authorId column is id.
BooksOfAuthorNone(bs, id) == {}

BooksOfAuthorAny(bs, id) == DOMAIN bs

BooksOfAuthor(bs, id) == {k \in DOMAIN bs : bs[k].authorId = id}

\* Object.assign(book, dto)
AssignIgnored(book, dto) == book

AssignNeverAvailable(book, dto) ==
  [k \in DOMAIN book |->
     IF k \in DOMAIN dto /\ ~(k = "available" /\ dto[k] = TRUE)
       THEN dto[k] ELSE book[k]]

Assign(book, dto) ==
  [k \in DOMAIN book |-> IF k \in DOMAIN dto THEN dto[k] ELSE book[k]]

\* What the last handler run returned to its caller and logged: the outcome
\* ("ok", or the exception thrown: "NotFound", "BadRequest", or "Error" for an
\* exception of the storage), the storage call that threw ("none" when all the
\* calls the run made answered; the constraint violated when the ValidationPipe
\* rejected the body before the service was called), and the id of the row it inserted; for a run
\* of the sweep, whether it came right after another run of the sweep.
Result(op, arg, outcome, fault, created) ==
  [op |-> op, arg |-> arg, outcome |-> outcome, fault |-> fault,
   created |-> created, wasOverdue |-> FALSE, daysLate |-> 0,
   again |-> FALSE]

\* ------------------------------------------------------------ BooksService
CreateBookDtos ==
  {[isbn |-> i, authorId |-> w] : i \in Isbns, w \in AuthorIdInputs}
    \cup {[isbn |-> i, authorId |-> w, available |-> a] :
            i \in Isbns, w \in AuthorIdInputs, a \in BOOLEAN}

UpdateBookDtos ==
  {EmptyTable}
    \cup {[isbn |-> i] : i \in Isbns}
    \cup {[available |-> a] : a \in BOOLEAN}
    \cup {[isbn |-> i, available |-> TRUE] : i \in Isbns}
    \cup {[authorId |-> w] : w \in AuthorIdInputs}

\* The storage call of each catalogue handler that is made to throw.
CreateBookFaults == {"none", "save"}

UpdateBookFaults == {"none", "save"}

RemoveBookFaults == {"none", "remove"}

\* createBookDto.available ?? true
AvailableOrDefaultFalse(dto) ==
  IF "available" \in DOMAIN dto THEN dto.available ELSE FALSE

AvailableOrDefault(dto) ==
  IF "available" \in DOMAIN dto THEN dto.available ELSE TRUE

IsbnTakenUnchecked(bs, isbn) == FALSE

IsbnTaken(bs, isbn) == \E o \in DOMAIN bs : bs[o].isbn = isbn

IsbnTakenByOtherUnchecked(bs, isbn, id) == FALSE

IsbnTakenByOther(bs, isbn, id) ==
  \E o \in DOMAIN bs : bs[o].isbn = isbn /\ o # id

\* BooksService.update as a function of the books table: its outcome, the
\* storage call that threw and the table it leaves.  Storage calls:
\* findOne(id), findOne(isbn) when the dto has an isbn, save.  as is the
\* authors table, which the save checks Book.authorId against.
BooksUpdate(bs, as, id, dto, fault) ==
  IF fault = "findOne"
    THEN [outcome |-> "Error", fault |-> fault, books |-> bs]
  ELSE IF id \notin DOMAIN bs
    THEN [outcome |-> "NotFound", fault |-> "none", books |-> bs]
  ELSE IF "isbn" \in DOMAIN dto /\ fault = "findIsbn"
    THEN [outcome |-> "Error", fault |-> fault, books |-> bs]
  ELSE IF "isbn" \in DOMAIN dto /\ IsbnTakenByOther(bs, dto.isbn, id)
    THEN [outcome |-> "BadRequest", fault |-> "none", books |-> bs]
  ELSE IF fault = "save"
    THEN [outcome |-> "Error", fault |-> fault, books |-> bs]
  ELSE IF AuthorMissing(as, Assign(bs[id], dto).authorId)
    THEN [outcome |-> "Error", fault |-> "foreignKey", books |-> bs]
  ELSE [outcome |-> "ok", fault |-> "none",
        books |-> [bs EXCEPT ![id] = Assign(bs[id], dto)]]

CreateBook(dto, fault) ==
  /\ nextBookId <= MaxBooks
  /\ UNCHANGED <<calls, authors, nextAuthorId>>
  /\ UNCHANGED <<borrowings, nextBorrowingId, now>>
  /\ IF fault = "findIsbn"
       THEN /\ last' = Result("createBook", NoId, "Error", fault, NoId)
            /\ UNCHANGED <<books, nextBookId>>
     ELSE IF IsbnTaken(books, dto.isbn)
       THEN /\ last' = Result("createBook", NoId, "BadRequest", "none", NoId)
            /\ UNCHANGED <<books, nextBookId>>
     ELSE IF fault = "save"
       THEN /\ last' = Result("createBook", NoId, "Error", fault, NoId)
            /\ UNCHANGED <<books, nextBookId>>
     ELSE IF AuthorMissing(authors, dto.authorId)
       THEN /\ last' = Result("createBook", NoId, "Error", "foreignKey", NoId)
            /\ UNCHANGED <<books, nextBookId>>
     ELSE /\ books' = books @@ (nextBookId :>
                        [isbn |-> dto.isbn, authorId |-> dto.authorId,
                         available |-> AvailableOrDefault(dto)])
          /\ nextBookId' = nextBookId + 1
          /\ last' = Result("createBook", NoId, "ok", "none", nextBookId)

UpdateBook(id, dto, fault) ==
  LET r == BooksUpdate(books, authors, id, dto, fault) IN
  /\ books' = r.books
  /\ last' = Result("updateBook", id, r.outcome, r.fault, NoId)
  /\ UNCHANGED <<calls, authors, nextAuthorId>>
  /\ UNCHANGED <<nextBookId, borrowings, nextBorrowingId, now>>

RemoveBook(id, fault) ==
  /\ UNCHANGED <<calls, authors, nextAuthorId>>
  /\ UNCHANGED <<nextBookId, borrowings, nextBorrowingId, now>>
  /\ IF fault = "findOne"
       THEN /\ last' = Result("removeBook", id, "Error", fault, NoId)
            /\ UNCHANGED books
     ELSE IF id \notin DOMAIN books
       THEN /\ last' = Result("removeBook", id, "NotFound", "none", NoId)
            /\ UNCHANGED books
     ELSE IF fault = "remove"
       THEN /\ last' = Result("removeBook", id, "Error", fault, NoId)
            /\ UNCHANGED books
     ELSE IF BookReferenced(borrowings, id)
       THEN /\ last' = Result("removeBook", id, "Error", "foreignKey", NoId)
            /\ UNCHANGED books
     ELSE /\ books' = [k \in DOMAIN books \ {id} |-> books[k]]
          /\ last' = Result("removeBook", id, "ok", "none", NoId)

\* ---------------------------------------------------------- AuthorsService
CreateAuthorDtos == {[lastName |-> n] : n \in AuthorNames}

\* create: the author is inserted under the next id of the table.
CreateAuthor(dto) ==
  /\ nextAuthorId <= MaxAuthors
  /\ authors' = authors @@ (nextAuthorId :> dto)
  /\ nextAuthorId' = nextAuthorId + 1
  /\ last' = Result("createAuthor", NoId, "ok", "none", nextAuthorId)
  /\ UNCHANGED <<books, nextBookId, borrowings, nextBorrowingId, now, calls>>

\* delete(id): NotFound when there is no such author; a count of the books
\* with authorId = id, and BadRequest when it is above zero; otherwise the row
\* is deleted.
RemoveAuthor(id) ==
  /\ UNCHANGED <<books, nextBookId, borrowings, nextBorrowingId, now, calls,
                 nextAuthorId>>
  /\ IF id \notin DOMAIN authors
       THEN /\ last' = Result("removeAuthor", id, "NotFound", "none", NoId)
            /\ UNCHANGED authors
     ELSE IF Cardinality(BooksOfAuthor(books, id)) > 0
       THEN /\ last' = Result("removeAuthor", id, "BadRequest", "none", NoId)
            /\ UNCHANGED authors
     ELSE /\ authors' = [a \in DOMAIN authors \ {id} |-> authors[a]]
          /\ last' = Result("removeAuthor", id, "ok", "none", NoId)

\* ------------------------------------------------------- BorrowingsService
\* The bodies of POST /borrowings: the properties of CreateBorrowingDto, with
\* borrowDays or without, and bodies that also carry columns of Borrowing.
BorrowingBodiesWithoutDays ==
  {[bookId |-> b, borrowerName |-> n, borrowerEmail |-> e] :
     b \in BookIdInputs, n \in BorrowerNames, e \in BorrowerEmails}

CreateBorrowingDtos ==
  BorrowingBodiesWithoutDays
    \cup {body @@ [borrowDays |-> d] :
            body \in BorrowingBodiesWithoutDays, d \in BorrowDaysInputs}
    \cup {body @@ [borrowDays |-> 1, status |-> "OVERDUE"] :
            body \in BorrowingBodiesWithoutDays}
    \cup {body @@ [borrowDays |-> 1, returnedDate |-> 0] :
            body \in BorrowingBodiesWithoutDays}

\* The decorated properties of CreateBorrowingDto.
WhitelistedProperties == {"bookId", "borrowerName", "borrowerEmail", "borrowDays"}

\* ValidationPipe({ whitelist: true, forbidNonWhitelisted: true }): a body with
\* a property that has no decorator is rejected.
NonWhitelistedAllowed(body) == FALSE

NonWhitelisted(body) == DOMAIN body \ WhitelistedProperties # {}

\* @IsNumber() @Min(1) borrowDays, with no @IsOptional(): a body without
\* borrowDays fails as one with a value below 1 does.
BorrowDaysInvalidUnchecked(body) == FALSE

BorrowDaysInvalid(body) ==
  ~("borrowDays" \in DOMAIN body /\ body.borrowDays >= 1)

ValidationConstraints == {"whitelistValidation", "isNumber", "min", "validation"}

\* The constraint that the 400 answer of the ValidationPipe names for a body
\* it rejects.
RejectedConstraint(body) ==
  IF NonWhitelisted(body) THEN "whitelistValidation"
  ELSE IF "borrowDays" \notin DOMAIN body THEN "isNumber"
  ELSE IF body.borrowDays < 1 THEN "min"
  ELSE "validation"

\* The body passes the global ValidationPipe as a CreateBorrowingDto.
ValidCreateBorrowingDto(body) ==
  /\ ~NonWhitelisted(body)
  /\ "bookId" \in DOMAIN body /\ body.bookId >= 1
  /\ "borrowerName" \in DOMAIN body /\ body.borrowerName # ""
  /\ "borrowerEmail" \in DOMAIN body /\ body.borrowerEmail # ""
  /\ ~BorrowDaysInvalid(body)

\* createBorrowingDto.borrowDays || this.DEFAULT_BORROW_DAYS
BorrowDaysAlwaysDefault(dto) == DEFAULT_BORROW_DAYS

BorrowDaysOrDefault(dto) ==
  IF "borrowDays" \in DOMAIN dto /\ dto.borrowDays # 0
    THEN dto.borrowDays ELSE DEFAULT_BORROW_DAYS

\* The row borrow inserts for dto at time t: the columns of Borrowing that the
\* dto carries ({ ...createBorrowingDto }), then borrowedDate, dueDate and
\* status, which overwrite what the dto carries for them.
NewBorrowing(dto, t) ==
  [bookId |-> dto.bookId,
   borrowerName |-> dto.borrowerName,
   borrowedDate |-> ToDateColumn(t),
   dueDate |-> ToDateColumn(AddDays(t, BorrowDaysOrDefault(dto))),
   returnedDate |-> IF "returnedDate" \in DOMAIN dto
                      THEN ToDateColumn(dto.returnedDate) ELSE NoDate,
   status |-> "BORROWED"]

\* The patches the borrowings service sends to booksService.update.
MarkUnavailableDtoLeftTrue == [available |-> TRUE]

MarkUnavailableDto == [available |-> FALSE]

MarkAvailableDtoLeftFalse == [available |-> FALSE]

MarkAvailableDto == [available |-> TRUE]

\* !book.available
NotAvailableUnchecked(book) == FALSE

NotAvailableInverted(book) == book.available

NotAvailable(book) == ~book.available

\* Storage calls of borrow after its checks: borrowingRepository.save, then
\* booksService.update (its findOne and its save).
BorrowFaults == {"none", "saveBorrowing", "updateFind", "updateSave"}

UpdateFaultOf(fault) ==
  IF fault = "updateFind" THEN "findOne"
  ELSE IF fault = "updateSave" THEN "save"
  ELSE "none"

Borrow(dto, fault) ==
  /\ nextBorrowingId <= MaxBorrowings
  /\ UNCHANGED <<calls, authors, nextAuthorId>>
  /\ UNCHANGED <<nextBookId, now>>
  /\ IF ~ValidCreateBorrowingDto(dto)
       THEN /\ last' = Result("borrow", dto.bookId, "BadRequest",
                              RejectedConstraint(dto), NoId)
            /\ UNCHANGED <<books, borrowings, nextBorrowingId>>
     ELSE IF dto.bookId \notin DOMAIN books
       THEN /\ last' = Result("borrow", dto.bookId, "NotFound", "none", NoId)
            /\ UNCHANGED <<books, borrowings, nextBorrowingId>>
     ELSE IF NotAvailable(books[dto.bookId])
       THEN /\ last' = Result("borrow", dto.bookId, "BadRequest", "none", NoId)
            /\ UNCHANGED <<books, borrowings, nextBorrowingId>>
     ELSE IF fault = "saveBorrowing"
       THEN /\ last' = Result("borrow", dto.bookId, "Error", fault, NoId)
            /\ UNCHANGED <<books, borrowings, nextBorrowingId>>
     ELSE LET r == BooksUpdate(books, authors, dto.bookId, MarkUnavailableDto,
                               UpdateFaultOf(fault)) IN
          /\ borrowings' = borrowings @@ (nextBorrowingId :> NewBorrowing(dto, now))
          /\ nextBorrowingId' = nextBorrowingId + 1
          /\ books' = r.books
          /\ last' = Result("borrow", dto.bookId, r.outcome,
                            IF r.outcome = "ok" THEN "none" ELSE fault,
                            IF r.outcome = "ok" THEN nextBorrowingId ELSE NoId)

\* Storage calls of returnBook after its checks: borrowingRepository.save, then
\* inside the try block booksService.findOne and booksService.update.
ReturnFaults == {"none", "saveBorrowing", "findBook", "updateFind", "updateSave"}

\* findOne: the exception for an id without a row
BorrowingMissingAsBadRequest == "BadRequest"

BorrowingMissing == "NotFound"

\* borrowing.status === 'RETURNED'
AlreadyReturnedUnchecked(b) == FALSE

AlreadyReturned(b) == b.status = "RETURNED"

\* borrowing.status = 'RETURNED'; borrowing.returnedDate = returnedDate; save
ReturnedRowWithoutDate(b, t) == [b EXCEPT !.status = "RETURNED"]

ReturnedRowLateAsOverdue(b, t) ==
  [b EXCEPT !.status = IF t > b.dueDate THEN "OVERDUE" ELSE "RETURNED",
            !.returnedDate = ToDateColumn(t)]

ReturnedRow(b, t) ==
  [b EXCEPT !.status = "RETURNED", !.returnedDate = ToDateColumn(t)]

\* The catch block of returnBook logs and does not rethrow.
ReturnOutcomeRethrown(caught) == IF caught THEN "Error" ELSE "ok"

ReturnOutcome(caught) == "ok"

\* The try block of returnBook: the books table it leaves and whether its
\* catch block ran.  Every failure in it is caught and logged.
MarkAvailableSkipped(bs, as, bookId, fault) == [books |-> bs, caught |-> FALSE]

MarkAvailable(bs, as, bookId, fault) ==
  IF fault = "findBook" \/ bookId \notin DOMAIN bs
    THEN [books |-> bs, caught |-> TRUE]
  ELSE LET r == BooksUpdate(bs, as, bookId, MarkAvailableDto, UpdateFaultOf(fault))
       IN [books |-> r.books, caught |-> r.outcome # "ok"]

\* borrowing.status === 'OVERDUE' || returnedDate > dueDate
WasOverdueStatusOnly(b, t) == b.status = "OVERDUE"

WasOverdue(b, t) == b.status = "OVERDUE" \/ t > b.dueDate

\* Math.floor((returnedDate - dueDate) / one day), 0 when not overdue
DaysLate(b, t) == IF WasOverdue(b, t) THEN (t - b.dueDate) \div TicksPerDay ELSE 0

ReturnBook(id, fault) ==
  /\ UNCHANGED <<calls, authors, nextAuthorId>>
  /\ UNCHANGED <<nextBookId, nextBorrowingId, now>>
  /\ IF id \notin DOMAIN borrowings
       THEN /\ last' = Result("returnBook", id, BorrowingMissing, "none", NoId)
            /\ UNCHANGED <<books, borrowings>>
     ELSE IF AlreadyReturned(borrowings[id])
       THEN /\ last' = Result("returnBook", id, "BadRequest", "none", NoId)
            /\ UNCHANGED <<books, borrowings>>
     ELSE IF fault = "saveBorrowing"
       THEN /\ last' = Result("returnBook", id, "Error", fault, NoId)
            /\ UNCHANGED <<books, borrowings>>
     ELSE LET m == MarkAvailable(books, authors, borrowings[id].bookId, fault) IN
          /\ borrowings' = [borrowings EXCEPT ![id] = ReturnedRow(@, now)]
          /\ books' = m.books
          /\ last' = [Result("returnBook", id, ReturnOutcome(m.caught),
                             IF m.caught THEN fault ELSE "none", NoId) EXCEPT
                        !.wasOverdue = WasOverdue(borrowings[id], now),
                        !.daysLate = DaysLate(borrowings[id], now)]

\* The rows checkOverdueBooks finds BORROWED and past due at time t.
PastDueAnyStatus(brs, t) == {b \in DOMAIN brs : t > brs[b].dueDate}

PastDueWrongFilter(brs, t) ==
  {b \in DOMAIN brs : brs[b].status = "OVERDUE" /\ t > brs[b].dueDate}

PastDueInclusive(brs, t) ==
  {b \in DOMAIN brs : brs[b].status = "BORROWED" /\ t >= brs[b].dueDate}

PastDueByBorrowedDate(brs, t) ==
  {b \in DOMAIN brs : brs[b].status = "BORROWED" /\ t > brs[b].borrowedDate}

PastDue(brs, t) ==
  {b \in DOMAIN brs : brs[b].status = "BORROWED" /\ t > brs[b].dueDate}

\* Storage calls of checkOverdueBooks: find, then one save per past-due row, in
\* the order find returned them (no ORDER BY).  A throw ends the run in the
\* catch block: the rows saved before it stay saved.
SweepFaults == {"none", "find", "save"}

\* The sets of rows one run may have saved when its loop ends, for the rows
\* due that find returned: all of them, or those before the save that threw.
SweepSavesFirstOnly(due, fault) ==
  {saved \in SUBSET due : Cardinality(saved) = (IF due = {} THEN 0 ELSE 1)}

SweepSaves(due, fault) ==
  IF fault = "none" THEN {due}
  ELSE IF fault = "find" THEN {{}}
  ELSE {saved \in SUBSET due : saved # due \/ due = {}}

\* The catch block of checkOverdueBooks logs and does not rethrow.
SweepOutcomeRethrown(threw) == IF threw THEN "Error" ELSE "ok"

SweepOutcome(threw) == "ok"

CheckOverdueBooks(fault) ==
  /\ UNCHANGED <<calls, authors, nextAuthorId>>
  /\ UNCHANGED <<books, nextBookId, nextBorrowingId, now>>
  /\ \E saved \in SweepSaves(PastDue(borrowings, now), fault) :
       LET threw == IF fault = "save" /\ PastDue(borrowings, now) = {}
                      THEN "none" ELSE fault
       IN /\ borrowings' = [b \in DOMAIN borrowings |->
                              IF b \in saved
                                THEN [borrowings[b] EXCEPT !.status = "OVERDUE"]
                                ELSE borrowings[b]]
          /\ last' = [Result("sweep", NoId, SweepOutcome(threw # "none"),
                             threw, NoId)
                        EXCEPT !.again = (last.op = "sweep")]

\* ------------------------------------------------------------------- clock
\* The clock advances by one tick, up to the tick max.
Tick(max) ==
  /\ UNCHANGED <<calls, authors, nextAuthorId>>
  /\ now < max
  /\ now' = now + 1
  /\ last' = Result("tick", NoId, "ok", "none", NoId)
  /\ UNCHANGED <<books, nextBookId, borrowings, nextBorrowingId>>

Init ==
  /\ books = EmptyTable
  /\ nextBookId = 1
  /\ borrowings = EmptyTable
  /\ nextBorrowingId = 1
  /\ now = 0
  /\ calls = EmptyTable
  /\ authors = EmptyTable
  /\ nextAuthorId = 1
  /\ last = Result("init", NoId, "ok", "none", NoId)

\* The inputs of the lending specifications: the books of one author.
LendingAuthorIds == 1..MaxLendingAuthors

LendingCreateBookDtos ==
  {dto \in CreateBookDtos : dto.authorId \in LendingAuthorIds}

LendingUpdateBookDtos ==
  {dto \in UpdateBookDtos :
     "authorId" \in DOMAIN dto => dto.authorId \in LendingAuthorIds}

\* The patches of the lending desk: available set or cleared, or nothing.
LendingAvailableDtos ==
  {dto \in UpdateBookDtos : DOMAIN dto \subseteq {"available"}}

\* The bodies that pass the validation and ask for a loan of one day, the
\* loans that fall due before MaxTime.
LendingBorrowingDtos ==
  {dto \in CreateBorrowingDtos :
     ValidCreateBorrowingDto(dto) /\ dto.borrowDays = 1}

\* The catalog and the lending desk together: the bodies of the loans are
\* those of LendingBorrowingDtos and the patches those of
\* LendingAvailableDtos; LoanSpec has every body of POST /borrowings, and
\* CatalogSpec every patch.
Next ==
  \/ \E dto \in LendingCreateBookDtos, f \in CreateBookFaults :
       CreateBook(dto, f)
  \/ \E id \in BookIdInputs, dto \in LendingAvailableDtos,
        f \in UpdateBookFaults : UpdateBook(id, dto, f)
  \/ \E id \in BookIdInputs, f \in RemoveBookFaults :
       RemoveBook(id, f)
  \/ \E dto \in LendingBorrowingDtos, f \in BorrowFaults : Borrow(dto, f)
  \/ \E id \in BorrowingIdInputs, f \in ReturnFaults : ReturnBook(id, f)
  \/ \E f \in SweepFaults : CheckOverdueBooks(f)
  \/ Tick(MaxTime)
  \/ \E dto \in CreateAuthorDtos :
       nextAuthorId <= MaxLendingAuthors /\ CreateAuthor(dto)
  \/ \E id \in LendingAuthorIds : RemoveAuthor(id)

Spec == Init /\ [][Next]_vars

\* startOverdueCheck arms a timer that is never cleared: as long as a run of
\* the sweep would change the storage, a run in which no storage call throws
\* takes place at some point (storage failures are not permanent).
FairSpec == Spec /\ WF_vars(CheckOverdueBooks("none"))

\* Loans over a longer time: books are created, borrowed and returned, the
\* sweep runs and the clock advances up to MaxLoanTime.
LoanNext ==
  \/ \E dto \in CreateAuthorDtos :
       nextAuthorId <= MaxLendingAuthors /\ CreateAuthor(dto)
  \/ \E dto \in LendingCreateBookDtos : CreateBook(dto, "none")
  \/ \E dto \in CreateBorrowingDtos, f \in BorrowFaults : Borrow(dto, f)
  \/ \E id \in BorrowingIdInputs, f \in ReturnFaults : ReturnBook(id, f)
  \/ \E f \in SweepFaults : CheckOverdueBooks(f)
  \/ Tick(MaxLoanTime)

LoanSpec == Init /\ [][LoanNext]_vars

\* The Book Store on its own: sequences of Book create, update and remove.
CatalogNext ==
  \/ \E dto \in CreateBookDtos, f \in CreateBookFaults :
       CreateBook(dto, f)
  \/ \E id \in BookIdInputs, dto \in UpdateBookDtos,
        f \in UpdateBookFaults : UpdateBook(id, dto, f)
  \/ \E id \in BookIdInputs, f \in RemoveBookFaults :
       RemoveBook(id, f)
  \/ \E dto \in CreateAuthorDtos : CreateAuthor(dto)
  \/ \E id \in AuthorIdInputs : RemoveAuthor(id)

CatalogSpec == Init /\ [][CatalogNext]_vars

\* ------------------------------------------- borrow, from await to await
\* Each action is the code of one call between two awaits: the storage call
\* whose answer it resumes on, and the synchronous code up to the next await.
CallIds == 1..MaxCalls

NoBook == [isbn |-> "", authorId |-> NoId, available |-> FALSE]

Call(dto, pc, book, outcome, created) ==
  [op |-> "borrow", dto |-> dto, pc |-> pc, book |-> book,
   outcome |-> outcome, created |-> created]

\* book = await this.booksService.findOne(bookId), NotFound when it throws
BorrowFindBook(c, dto) ==
  /\ c \notin DOMAIN calls
  /\ \A d \in CallIds : d < c => d \in DOMAIN calls
  /\ calls' = calls @@ (c :>
       IF ~ValidCreateBorrowingDto(dto)
         THEN Call(dto, "done", NoBook, "BadRequest", NoId)
       ELSE IF dto.bookId \in DOMAIN books
         THEN Call(dto, "saveBorrowing", books[dto.bookId], "pending", NoId)
         ELSE Call(dto, "done", NoBook, "NotFound", NoId))
  /\ UNCHANGED <<books, nextBookId, borrowings, nextBorrowingId, now, last>>
  /\ UNCHANGED <<authors, nextAuthorId>>

\* if (!book.available) throw; await this.borrowingRepository.save(borrowing)
BorrowSaveBorrowing(c) ==
  /\ c \in DOMAIN calls /\ calls[c].pc = "saveBorrowing"
  /\ UNCHANGED <<authors, nextAuthorId>>
  /\ UNCHANGED <<books, nextBookId, now>>
  /\ IF NotAvailable(calls[c].book)
       THEN /\ calls' = [calls EXCEPT ![c].pc = "done",
                                      ![c].outcome = "BadRequest"]
            /\ last' = Result("borrow", calls[c].dto.bookId, "BadRequest",
                              "none", NoId)
            /\ UNCHANGED <<borrowings, nextBorrowingId>>
       ELSE /\ nextBorrowingId <= MaxBorrowings
            /\ borrowings' = borrowings @@
                 (nextBorrowingId :> NewBorrowing(calls[c].dto, now))
            /\ nextBorrowingId' = nextBorrowingId + 1
            /\ calls' = [calls EXCEPT ![c].pc = "updateFind",
                                      ![c].created = nextBorrowingId]
            /\ UNCHANGED last

\* booksService.update: book = await this.bookRepository.findOne(id)
BorrowUpdateFind(c) ==
  /\ c \in DOMAIN calls /\ calls[c].pc = "updateFind"
  /\ UNCHANGED <<authors, nextAuthorId>>
  /\ UNCHANGED <<books, nextBookId, borrowings, nextBorrowingId, now>>
  /\ IF calls[c].dto.bookId \in DOMAIN books
       THEN /\ calls' = [calls EXCEPT ![c].pc = "updateSave",
                                      ![c].book = books[calls[c].dto.bookId]]
            /\ UNCHANGED last
       ELSE /\ calls' = [calls EXCEPT ![c].pc = "done",
                                      ![c].outcome = "NotFound"]
            /\ last' = Result("borrow", calls[c].dto.bookId, "NotFound",
                              "none", NoId)

\* booksService.update: Object.assign(book, dto); await save(book); the
\* entity read by the findOne before is written with the patch applied.
BorrowUpdateSave(c) ==
  /\ c \in DOMAIN calls /\ calls[c].pc = "updateSave"
  /\ UNCHANGED <<authors, nextAuthorId>>
  /\ books' = (calls[c].dto.bookId :> Assign(calls[c].book, MarkUnavailableDto))
                 @@ books
  /\ calls' = [calls EXCEPT ![c].pc = "done", ![c].outcome = "ok"]
  /\ last' = Result("borrow", calls[c].dto.bookId, "ok", "none",
                    calls[c].created)
  /\ UNCHANGED <<nextBookId, borrowings, nextBorrowingId, now>>

ConcurrentNext ==
  \/ \E dto \in CreateAuthorDtos :
       nextAuthorId <= MaxLendingAuthors /\ CreateAuthor(dto)
  \/ \E dto \in LendingCreateBookDtos : CreateBook(dto, "none")
  \/ \E c \in CallIds, dto \in CreateBorrowingDtos : BorrowFindBook(c, dto)
  \/ \E c \in CallIds : BorrowSaveBorrowing(c)
  \/ \E c \in CallIds : BorrowUpdateFind(c)
  \/ \E c \in CallIds : BorrowUpdateSave(c)

ConcurrentSpec == Init /\ [][ConcurrentNext]_vars

\* ------------------------------------- returnBook and the sweep, await by await
\* The bodies a running returnBook or borrow is called with in the
\* interleaved specifications: those the validation accepts.
AcceptedBorrowingDtos ==
  {dto \in CreateBorrowingDtos : ValidCreateBorrowingDto(dto)}

\* The timer callback has no call slot of its own among the requests.
SweepCallId == 0

NoBorrowing ==
  [bookId |-> NoId, borrowerName |-> "", status |-> "", returnedDate |-> NoDate,
   borrowedDate |-> NoDate, dueDate |-> NoDate]

ReturnCall(id, pc, row, book, outcome) ==
  [op |-> "returnBook", id |-> id, pc |-> pc, row |-> row, book |-> book,
   outcome |-> outcome]

\* borrowing = await this.findOne(id); the RETURNED check; returnedDate = new
\* Date(); status and returnedDate are set on the entity that was read.
ReturnFindOne(c, id) ==
  /\ c \notin DOMAIN calls
  /\ \A d \in CallIds : d < c => d \in DOMAIN calls
  /\ UNCHANGED <<authors, nextAuthorId>>
  /\ UNCHANGED <<books, nextBookId, borrowings, nextBorrowingId, now>>
  /\ IF id \notin DOMAIN borrowings
       THEN /\ calls' = calls @@
                 (c :> ReturnCall(id, "done", NoBorrowing, NoBook, BorrowingMissing))
            /\ last' = Result("returnBook", id, BorrowingMissing, "none", NoId)
     ELSE IF AlreadyReturned(borrowings[id])
       THEN /\ calls' = calls @@
                 (c :> ReturnCall(id, "done", borrowings[id], NoBook, "BadRequest"))
            /\ last' = Result("returnBook", id, "BadRequest", "none", NoId)
     ELSE /\ calls' = calls @@
               (c :> ReturnCall(id, "saveBorrowing",
                                ReturnedRow(borrowings[id], now), NoBook,
                                "pending"))
          /\ UNCHANGED last

\* await this.borrowingRepository.save(borrowing): the entity read by findOne
\* is written with its new status and returnedDate.
ReturnSaveBorrowing(c) ==
  /\ c \in DOMAIN calls /\ calls[c].pc = "saveBorrowing"
  /\ borrowings' = [borrowings EXCEPT ![calls[c].id] = calls[c].row]
  /\ calls' = [calls EXCEPT ![c].pc = "findBook"]
  /\ UNCHANGED <<authors, nextAuthorId, last>>
  /\ UNCHANGED <<books, nextBookId, nextBorrowingId, now>>

\* try { book = await this.booksService.findOne(borrowing.bookId)
ReturnFindBook(c) ==
  /\ c \in DOMAIN calls /\ calls[c].pc = "findBook"
  /\ UNCHANGED <<authors, nextAuthorId>>
  /\ UNCHANGED <<books, nextBookId, borrowings, nextBorrowingId, now>>
  /\ IF calls[c].row.bookId \in DOMAIN books
       THEN /\ calls' = [calls EXCEPT ![c].pc = "updateFind"]
            /\ UNCHANGED last
       ELSE /\ calls' = [calls EXCEPT ![c].pc = "done",
                                      ![c].outcome = ReturnOutcome(TRUE)]
            /\ last' = Result("returnBook", calls[c].id, ReturnOutcome(TRUE),
                              "none", NoId)

\* booksService.update: book = await this.bookRepository.findOne(id)
ReturnUpdateFind(c) ==
  /\ c \in DOMAIN calls /\ calls[c].pc = "updateFind"
  /\ UNCHANGED <<authors, nextAuthorId>>
  /\ UNCHANGED <<books, nextBookId, borrowings, nextBorrowingId, now>>
  /\ IF calls[c].row.bookId \in DOMAIN books
       THEN /\ calls' = [calls EXCEPT ![c].pc = "updateSave",
                                      ![c].book = books[calls[c].row.bookId]]
            /\ UNCHANGED last
       ELSE /\ calls' = [calls EXCEPT ![c].pc = "done",
                                      ![c].outcome = ReturnOutcome(TRUE)]
            /\ last' = Result("returnBook", calls[c].id, ReturnOutcome(TRUE),
                              "none", NoId)

\* booksService.update: Object.assign(book, { available: true }); save(book)
ReturnUpdateSave(c) ==
  /\ c \in DOMAIN calls /\ calls[c].pc = "updateSave"
  /\ books' = (calls[c].row.bookId :> Assign(calls[c].book, MarkAvailableDto))
                 @@ books
  /\ calls' = [calls EXCEPT ![c].pc = "done", ![c].outcome = ReturnOutcome(FALSE)]
  /\ last' = Result("returnBook", calls[c].id, ReturnOutcome(FALSE), "none", NoId)
  /\ UNCHANGED <<authors, nextAuthorId>>
  /\ UNCHANGED <<nextBookId, borrowings, nextBorrowingId, now>>

SweepCall(pc, due) == [op |-> "sweep", pc |-> pc, due |-> due]

\* now = new Date(); borrowedBooks = await find({ status: 'BORROWED' }): the
\* run keeps the entities it read; those past due are the ones its loop saves.
SweepFind ==
  /\ SweepCallId \in DOMAIN calls => calls[SweepCallId].pc = "done"
  /\ LET due == [b \in PastDue(borrowings, now) |-> borrowings[b]] IN
       calls' = (SweepCallId :>
                   SweepCall(IF DOMAIN due = {} THEN "done" ELSE "save", due))
                  @@ calls
  /\ last' = [Result("sweep", NoId, SweepOutcome(FALSE), "none", NoId)
                EXCEPT !.again = (last.op = "sweep")]
  /\ UNCHANGED <<authors, nextAuthorId>>
  /\ UNCHANGED <<books, nextBookId, borrowings, nextBorrowingId, now>>

\* borrowing.status = 'OVERDUE'; await this.borrowingRepository.save(borrowing)
\* for one of the entities read by find (find has no ORDER BY).
SweepSave(b) ==
  /\ SweepCallId \in DOMAIN calls /\ calls[SweepCallId].pc = "save"
  /\ b \in DOMAIN calls[SweepCallId].due
  /\ borrowings' = [borrowings EXCEPT
                      ![b] = [calls[SweepCallId].due[b] EXCEPT !.status = "OVERDUE"]]
  /\ LET rest == [d \in DOMAIN calls[SweepCallId].due \ {b} |->
                    calls[SweepCallId].due[d]] IN
       calls' = [calls EXCEPT
                   ![SweepCallId] =
                      SweepCall(IF DOMAIN rest = {} THEN "done" ELSE "save", rest)]
  /\ UNCHANGED <<authors, nextAuthorId, last>>
  /\ UNCHANGED <<books, nextBookId, nextBorrowingId, now>>

\* returnBook calls and the timer's sweep, interleaved at their awaits, next
\* to borrow.
ReturnRaceNext ==
  \/ \E dto \in CreateAuthorDtos :
       nextAuthorId <= MaxLendingAuthors /\ CreateAuthor(dto)
  \/ \E dto \in LendingCreateBookDtos : CreateBook(dto, "none")
  \/ \E dto \in AcceptedBorrowingDtos : Borrow(dto, "none")
  \/ \E c \in CallIds, id \in BorrowingIdInputs : ReturnFindOne(c, id)
  \/ \E c \in CallIds : ReturnSaveBorrowing(c)
  \/ \E c \in CallIds : ReturnFindBook(c)
  \/ \E c \in CallIds : ReturnUpdateFind(c)
  \/ \E c \in CallIds : ReturnUpdateSave(c)
  \/ SweepFind
  \/ \E b \in BorrowingIdInputs : SweepSave(b)
  \/ Tick(MaxTime)

ReturnRaceSpec == Init /\ [][ReturnRaceNext]_vars

\* ------------------------------------------ BooksService.update, await by await
UpdateCall(id, dto, pc, book, outcome) ==
  [op |-> "update", id |-> id, dto |-> dto, pc |-> pc, book |-> book,
   outcome |-> outcome]

\* book = await this.bookRepository.findOne({ where: { id } }); NotFound
\* without a row; the isbn lookup follows when the dto carries an isbn.
UpdateFindOne(c, id, dto) ==
  /\ c \notin DOMAIN calls
  /\ \A d \in CallIds : d < c => d \in DOMAIN calls
  /\ UNCHANGED <<authors, nextAuthorId>>
  /\ UNCHANGED <<books, nextBookId, borrowings, nextBorrowingId, now>>
  /\ IF id \notin DOMAIN books
       THEN /\ calls' = calls @@ (c :> UpdateCall(id, dto, "done", NoBook, "NotFound"))
            /\ last' = Result("updateBook", id, "NotFound", "none", NoId)
       ELSE /\ calls' = calls @@
                 (c :> UpdateCall(id, dto,
                                  IF "isbn" \in DOMAIN dto THEN "findIsbn" ELSE "save",
                                  books[id], "pending"))
            /\ UNCHANGED last

\* existingBook = await findOne({ where: { isbn } }); BadRequest when another
\* book has it
UpdateFindIsbn(c) ==
  /\ c \in DOMAIN calls /\ calls[c].pc = "findIsbn"
  /\ UNCHANGED <<authors, nextAuthorId>>
  /\ UNCHANGED <<books, nextBookId, borrowings, nextBorrowingId, now>>
  /\ IF IsbnTakenByOther(books, calls[c].dto.isbn, calls[c].id)
       THEN /\ calls' = [calls EXCEPT ![c].pc = "done",
                                      ![c].outcome = "BadRequest"]
            /\ last' = Result("updateBook", calls[c].id, "BadRequest", "none", NoId)
       ELSE /\ calls' = [calls EXCEPT ![c].pc = "save"]
            /\ UNCHANGED last

\* Object.assign(book, updateBookDto); await this.bookRepository.save(book):
\* the entity read by findOne is written with the patch applied.
UpdateSave(c) ==
  /\ c \in DOMAIN calls /\ calls[c].pc = "save"
  /\ UNCHANGED <<authors, nextAuthorId>>
  /\ UNCHANGED <<nextBookId, borrowings, nextBorrowingId, now>>
  /\ IF AuthorMissing(authors, Assign(calls[c].book, calls[c].dto).authorId)
       THEN /\ calls' = [calls EXCEPT ![c].pc = "done", ![c].outcome = "Error"]
            /\ last' = Result("updateBook", calls[c].id, "Error", "foreignKey", NoId)
            /\ UNCHANGED books
       ELSE /\ books' = (calls[c].id :> Assign(calls[c].book, calls[c].dto))
                           @@ books
            /\ calls' = [calls EXCEPT ![c].pc = "done", ![c].outcome = "ok"]
            /\ last' = Result("updateBook", calls[c].id, "ok", "none", NoId)

\* One Book update interleaved at its awaits with borrow and returnBook.
UpdateCallId == 1

UpdateRaceNext ==
  \/ \E dto \in CreateAuthorDtos :
       nextAuthorId <= MaxLendingAuthors /\ CreateAuthor(dto)
  \/ \E dto \in LendingCreateBookDtos : CreateBook(dto, "none")
  \/ \E dto \in AcceptedBorrowingDtos : Borrow(dto, "none")
  \/ \E id \in BorrowingIdInputs : ReturnBook(id, "none")
  \/ \E id \in BookIdInputs, dto \in LendingUpdateBookDtos :
       UpdateFindOne(UpdateCallId, id, dto)
  \/ UpdateFindIsbn(UpdateCallId)
  \/ UpdateSave(UpdateCallId)

UpdateRaceSpec == Init /\ [][UpdateRaceNext]_vars

\* ---------------------------------------------------------- seedDatabase
\* authorsData: the lastName of each seeded author, in the order saved.
SeedAuthorsData ==
  <<"Fitzgerald", "Austen", "Orwell", "Rowling", "Lee",
    "Hemingway", "Christie", "Dickens", "Twain", "Tolstoy",
    "Woolf", "García Márquez", "Morrison", "Asimov", "Bradbury",
    "Angelou", "Vonnegut", "Huxley", "Shelley", "Stoker",
    "Wells", "Tolkien">>

\* booksData, in the order saved: title, isbn, the index into authors that
\* authorId is taken from, and available.
SeedBook(title, isbn, author, available) ==
  [title |-> title, isbn |-> isbn, author |-> author, available |-> available]

SeedBooksData ==
  <<SeedBook("The Great Gatsby", "978-0-7432-7356-5", 0, TRUE),
    SeedBook("Tender Is the Night", "978-0-684-80147-6", 0, TRUE),
    SeedBook("This Side of Paradise", "978-0-684-80148-3", 0, TRUE),
    SeedBook("Pride and Prejudice", "978-0-14-143951-8", 1, TRUE),
    SeedBook("Sense and Sensibility", "978-0-14-143966-2", 1, TRUE),
    SeedBook("Emma", "978-0-14-143958-7", 1, TRUE),
    SeedBook("Mansfield Park", "978-0-14-143980-8", 1, TRUE),
    SeedBook("Persuasion", "978-0-14-143968-6", 1, TRUE),
    SeedBook("1984", "978-0-452-28423-4", 2, TRUE),
    SeedBook("Animal Farm", "978-0-452-28424-1", 2, TRUE),
    SeedBook("Homage to Catalonia", "978-0-15-642117-1", 2, TRUE),
    SeedBook("Harry Potter and the Philosopher's Stone", "978-0-7475-3269-6", 3, TRUE),
    SeedBook("Harry Potter and the Chamber of Secrets", "978-0-7475-3849-2", 3, TRUE),
    SeedBook("Harry Potter and the Prisoner of Azkaban", "978-0-7475-4215-5", 3, TRUE),
    SeedBook("Harry Potter and the Goblet of Fire", "978-0-7475-4624-5", 3, TRUE),
    SeedBook("Harry Potter and the Order of the Phoenix", "978-0-7475-5100-6", 3, TRUE),
    SeedBook("Harry Potter and the Half-Blood Prince", "978-0-7475-8108-9", 3, TRUE),
    SeedBook("Harry Potter and the Deathly Hallows", "978-0-545-01022-1", 3, TRUE),
    SeedBook("To Kill a Mockingbird", "978-0-06-112008-4", 4, TRUE),
    SeedBook("Go Set a Watchman", "978-0-06-240985-0", 4, TRUE),
    SeedBook("The Old Man and the Sea", "978-0-684-80122-3", 5, TRUE),
    SeedBook("The Catcher in the Rye", "978-0-316-76948-0", 5, TRUE),
    SeedBook("A Farewell to Arms", "978-0-684-80138-4", 5, TRUE),
    SeedBook("For Whom the Bell Tolls", "978-0-684-80139-1", 5, TRUE),
    SeedBook("The Sun Also Rises", "978-0-684-80140-7", 5, TRUE),
    SeedBook("Murder on the Orient Express", "978-0-06-269366-2", 6, TRUE),
    SeedBook("Death on the Nile", "978-0-06-269367-9", 6, TRUE),
    SeedBook("The Murder of Roger Ackroyd", "978-0-06-269368-6", 6, TRUE),
    SeedBook("And Then There Were None", "978-0-06-269369-3", 6, TRUE),
    SeedBook("The ABC Murders", "978-0-06-269370-9", 6, TRUE),
    SeedBook("Curtain", "978-0-06-269371-6", 6, TRUE),
    SeedBook("A Tale of Two Cities", "978-0-14-143960-0", 7, TRUE),
    SeedBook("Great Expectations", "978-0-14-143956-3", 7, FALSE),
    SeedBook("Oliver Twist", "978-0-14-143974-7", 7, TRUE),
    SeedBook("David Copperfield", "978-0-14-143916-7", 7, TRUE),
    SeedBook("A Christmas Carol", "978-0-14-143947-1", 7, TRUE),
    SeedBook("Bleak House", "978-0-14-143972-3", 7, TRUE),
    SeedBook("The Adventures of Huckleberry Finn", "978-0-14-243717-9", 8, TRUE),
    SeedBook("The Adventures of Tom Sawyer", "978-0-14-243717-8", 8, TRUE),
    SeedBook("A Connecticut Yankee in King Arthur's Court", "978-0-14-243717-7", 8, TRUE),
    SeedBook("The Prince and the Pauper", "978-0-14-243717-6", 8, TRUE),
    SeedBook("War and Peace", "978-0-14-044793-4", 9, TRUE),
    SeedBook("Anna Karenina", "978-0-14-044793-5", 9, TRUE),
    SeedBook("The Death of Ivan Ilyich", "978-0-14-044793-6", 9, TRUE),
    SeedBook("Mrs. Dalloway", "978-0-15-662870-9", 10, TRUE),
    SeedBook("To the Lighthouse", "978-0-15-690739-2", 10, TRUE),
    SeedBook("Orlando", "978-0-15-670160-8", 10, TRUE),
    SeedBook("The Waves", "978-0-15-694960-6", 10, TRUE),
    SeedBook("One Hundred Years of Solitude", "978-0-06-088328-7", 11, TRUE),
    SeedBook("Love in the Time of Cholera", "978-0-14-303907-8", 11, TRUE),
    SeedBook("Chronicle of a Death Foretold", "978-0-14-303715-9", 11, TRUE),
    SeedBook("Beloved", "978-1-4000-3341-6", 12, TRUE),
    SeedBook("The Bluest Eye", "978-0-452-28707-5", 12, TRUE),
    SeedBook("Song of Solomon", "978-1-4000-3342-3", 12, TRUE),
    SeedBook("Sula", "978-1-4000-3343-0", 12, TRUE),
    SeedBook("Foundation", "978-0-553-29335-7", 13, TRUE),
    SeedBook("I, Robot", "978-0-553-29438-5", 13, TRUE),
    SeedBook("The Caves of Steel", "978-0-553-29340-1", 13, TRUE),
    SeedBook("The End of Eternity", "978-0-553-29341-8", 13, TRUE),
    SeedBook("The Gods Themselves", "978-0-553-29342-5", 13, TRUE),
    SeedBook("Fahrenheit 451", "978-0-7432-4722-1", 14, TRUE),
    SeedBook("The Martian Chronicles", "978-0-380-97383-9", 14, TRUE),
    SeedBook("Something Wicked This Way Comes", "978-0-380-97384-6", 14, TRUE),
    SeedBook("Dandelion Wine", "978-0-380-97385-3", 14, TRUE),
    SeedBook("I Know Why the Caged Bird Sings", "978-0-345-44789-7", 15, TRUE),
    SeedBook("Gather Together in My Name", "978-0-345-44790-3", 15, TRUE),
    SeedBook("The Heart of a Woman", "978-0-345-44791-0", 15, TRUE),
    SeedBook("Slaughterhouse-Five", "978-0-385-33384-9", 16, TRUE),
    SeedBook("Cat's Cradle", "978-0-385-33385-6", 16, TRUE),
    SeedBook("Breakfast of Champions", "978-0-385-33386-3", 16, TRUE),
    SeedBook("The Sirens of Titan", "978-0-385-33387-0", 16, TRUE),
    SeedBook("Brave New World", "978-0-06-085052-4", 17, TRUE),
    SeedBook("The Doors of Perception", "978-0-06-085053-1", 17, TRUE),
    SeedBook("Island", "978-0-06-085054-8", 17, TRUE),
    SeedBook("Frankenstein", "978-0-14-143947-2", 18, TRUE),
    SeedBook("The Last Man", "978-0-14-143948-8", 18, TRUE),
    SeedBook("Dracula", "978-0-14-143984-6", 19, TRUE),
    SeedBook("The Jewel of Seven Stars", "978-0-14-143985-3", 19, TRUE),
    SeedBook("The Time Machine", "978-0-14-143997-6", 20, TRUE),
    SeedBook("The War of the Worlds", "978-0-14-143998-3", 20, TRUE),
    SeedBook("The Invisible Man", "978-0-14-143999-0", 20, TRUE),
    SeedBook("The Island of Doctor Moreau", "978-0-14-144000-2", 20, TRUE),
    SeedBook("The Hobbit", "978-0-544-00017-5", 21, TRUE),
    SeedBook("The Fellowship of the Ring", "978-0-544-00018-2", 21, TRUE),
    SeedBook("The Two Towers", "978-0-544-00019-9", 21, TRUE),
    SeedBook("The Return of the King", "978-0-544-00020-5", 21, TRUE),
    SeedBook("The Silmarillion", "978-0-544-00021-2", 21, TRUE)>>

\* authorRepository.save(authorsData) after TRUNCATE ... RESTART IDENTITY
SeedAuthors ==
  [a \in 1..Len(SeedAuthorsData) |-> [lastName |-> SeedAuthorsData[a]]]

\* bookRepository.save(booksData); authorId: authors[author].id
SeedBooks ==
  [k \in 1..Len(SeedBooksData) |->
     [isbn |-> SeedBooksData[k].isbn,
      authorId |-> SeedBooksData[k].author + 1,
      available |-> SeedBooksData[k].available]]

\* findBookByTitle: the id of the first saved book with the title, or NoId
FindBookByTitle(title) ==
  LET found == {k \in 1..Len(SeedBooksData) : SeedBooksData[k].title = title}
  IN IF found = {} THEN NoId
     ELSE CHOOSE k \in found : \A j \in found : k <= j

\* formatDate(new Date(now.getTime() + days * 24 * 60 * 60 * 1000))
FormatDate(t, days) == ToDateColumn(AddDays(t, days))

SeedBorrowing(bookId, borrowerName, borrowedDate, dueDate, returnedDate, status) ==
  [bookId |-> bookId, borrowerName |-> borrowerName,
   borrowedDate |-> borrowedDate, dueDate |-> dueDate,
   returnedDate |-> returnedDate, status |-> status]

\* borrowingsData at time t: a loan is pushed when its book is found.
SeedBorrowingsData(t) ==
  SelectSeq(
    <<SeedBorrowing(FindBookByTitle("Great Expectations"), "John Doe",
                    FormatDate(t, -20), FormatDate(t, -6), NoDate, "OVERDUE"),
      SeedBorrowing(FindBookByTitle("1984"), "Jane Smith",
                    FormatDate(t, -5), FormatDate(t, 9), NoDate, "BORROWED"),
      SeedBorrowing(FindBookByTitle("The Great Gatsby"), "Bob Johnson",
                    FormatDate(t, -30), FormatDate(t, -16), FormatDate(t, -10),
                    "RETURNED")>>,
    LAMBDA b : b.bookId # NoId)

\* borrowingRepository.save(borrowingsData)
SeedBorrowings(t) ==
  [b \in 1..Len(SeedBorrowingsData(t)) |-> SeedBorrowingsData(t)[b]]

\* borrowedBookIds: the bookId of the saved loans that are BORROWED or OVERDUE
BorrowedBookIdsOverdueOnly(brs) ==
  {brs[b].bookId : b \in {d \in DOMAIN brs : brs[d].status = "OVERDUE"}}

BorrowedBookIds(brs) ==
  {brs[b].bookId : b \in {d \in DOMAIN brs : brs[d].status \in OpenStatus}}

\* update(Book).set({ available: false }).where('id IN (:...ids)')
SetUnavailable(bs, ids) ==
  [k \in DOMAIN bs |->
     IF k \in ids THEN [bs[k] EXCEPT !.available = FALSE] ELSE bs[k]]

\* The storage call of seedDatabase that is made to throw; the tables written
\* before it stay written, and the error is rethrown.
SeedFaults == {"none", "saveAuthors", "saveBooks", "saveBorrowings", "updateBooks"}

SeedStages == <<"saveAuthors", "saveBooks", "saveBorrowings", "updateBooks">>

\* Whether the storage call named stage completes under the fault.
SeedReaches(stage, fault) ==
  \A i \in 1..Len(SeedStages) :
    SeedStages[i] = fault
      => \E j \in 1..Len(SeedStages) : SeedStages[j] = stage /\ j < i

SeedDatabase(fault) ==
  LET brs == IF SeedReaches("saveBorrowings", fault)
               THEN SeedBorrowings(now) ELSE EmptyTable
      bs == IF SeedReaches("saveBooks", fault) THEN SeedBooks ELSE EmptyTable
  IN /\ authors' = IF SeedReaches("saveAuthors", fault)
                     THEN SeedAuthors ELSE EmptyTable
     /\ nextAuthorId' = Cardinality(DOMAIN authors') + 1
     /\ books' = IF SeedReaches("updateBooks", fault)
                   THEN SetUnavailable(bs, BorrowedBookIds(brs)) ELSE bs
     /\ nextBookId' = Cardinality(DOMAIN bs) + 1
     /\ borrowings' = brs
     /\ nextBorrowingId' = Cardinality(DOMAIN brs) + 1
     /\ last' = Result("seed", NoId, IF fault = "none" THEN "ok" ELSE "Error",
                       fault, NoId)
     /\ UNCHANGED <<calls, now>>

\* The seeded library: the seed runs, loans are returned, the sweep runs and
\* the clock advances.
SeedNext ==
  \/ \E f \in SeedFaults : SeedDatabase(f)
  \/ \E id \in BorrowingIdInputs, f \in ReturnFaults : ReturnBook(id, f)
  \/ \E f \in SweepFaults : CheckOverdueBooks(f)
  \/ Tick(MaxTime)

SeedSpec == Init /\ [][SeedNext]_vars

\* ================================================================== claims
OpenBorrowingsOf(k) ==
  {b \in DOMAIN borrowings :
     borrowings[b].bookId = k /\ borrowings[b].status \in OpenStatus}

\* The storage calls of returnBook that sit inside its try block.
TryBlockFaults == {"findBook", "updateFind", "updateSave"}

\* C1: in every reachable state each book has at most one open Borrowing
\* (status BORROWED or OVERDUE).
AtMostOneOpenBorrowing ==
  \A k \in BookIdInputs : Cardinality(OpenBorrowingsOf(k)) <= 1

\* C2: immediately after a successful borrow(bookId) the Book is not available
\* and a new Borrowing of that bookId exists with status BORROWED.
BorrowSuccessMarksUnavailable ==
  [][(last'.op = "borrow" /\ last'.outcome = "ok") =>
       /\ last'.arg \in DOMAIN books'
       /\ ~books'[last'.arg].available
       /\ last'.created \in DOMAIN borrowings' \ DOMAIN borrowings
       /\ borrowings'[last'.created].bookId = last'.arg
       /\ borrowings'[last'.created].status = "BORROWED"]_vars

BorrowSucceeded ==
  /\ last.op = "borrow" /\ last.outcome = "ok"
  /\ last.arg \in DOMAIN books /\ ~books[last.arg].available
  /\ last.created \in DOMAIN borrowings
  /\ borrowings[last.created].status = "BORROWED"

LegalMoves ==
  {<<"BORROWED", "OVERDUE">>, <<"BORROWED", "RETURNED">>,
   <<"OVERDUE", "RETURNED">>}

ReturnOfReturnedRejected ==
  [][(/\ last'.op = "returnBook"
      /\ last'.arg \in DOMAIN borrowings
      /\ borrowings[last'.arg].status = "RETURNED") =>
       /\ last'.outcome = "BadRequest"
       /\ borrowings' = borrowings
       /\ books' = books]_vars

ReturnedTwiceRejected ==
  /\ last.op = "returnBook" /\ last.outcome = "BadRequest"
  /\ last.arg \in DOMAIN borrowings
  /\ borrowings[last.arg].status = "RETURNED"

\* C6: borrow of an existing Book whose available flag is false fails with
\* BadRequest, creates no Borrowing and leaves every Book and every Borrowing
\* unchanged.
BorrowUnavailableRejected ==
  [][(/\ last'.op = "borrow"
      /\ last'.arg \in DOMAIN books
      /\ ~books[last'.arg].available) =>
       /\ last'.outcome = "BadRequest"
       /\ borrowings' = borrowings
       /\ nextBorrowingId' = nextBorrowingId
       /\ books' = books]_vars

BorrowedAgainRejected ==
  /\ last.op = "borrow" /\ last.outcome = "BadRequest"
  /\ last.arg \in DOMAIN books /\ ~books[last.arg].available
  /\ OpenBorrowingsOf(last.arg) # {}

\* C7: borrow of a bookId without a Book (by a request that the validation
\* lets through to the service) fails with NotFound, and returnBook of an id
\* without a Borrowing fails with NotFound; both create no Borrowing and
\* leave every Book and every Borrowing unchanged.
MissingIdRejected ==
  [][/\ (/\ last'.op = "borrow" /\ last'.arg \notin DOMAIN books
         /\ last'.fault \notin ValidationConstraints) =>
          /\ last'.outcome = "NotFound"
          /\ borrowings' = borrowings
          /\ nextBorrowingId' = nextBorrowingId
          /\ books' = books
     /\ (last'.op = "returnBook" /\ last'.arg \notin DOMAIN borrowings) =>
          /\ last'.outcome = "NotFound"
          /\ borrowings' = borrowings
          /\ books' = books]_vars

MissingBorrowingRejected ==
  /\ last.op = "returnBook" /\ last.outcome = "NotFound"
  /\ last.arg \notin DOMAIN borrowings
  /\ DOMAIN borrowings # {} /\ DOMAIN books # {}

ReturnedDateIffReturned ==
  \A b \in DOMAIN borrowings :
    borrowings[b].returnedDate # NoDate <=> borrowings[b].status = "RETURNED"

\* The returnedDate of b is written in this step only by the successful
\* returnBook call on b, and not at all once it is set.
WrittenByReturnOnly(b) ==
  /\ borrowings[b].returnedDate # NoDate =>
       borrowings'[b].returnedDate = borrowings[b].returnedDate
  /\ borrowings'[b].returnedDate # borrowings[b].returnedDate =>
       /\ last'.op = "returnBook" /\ last'.arg = b
       /\ last'.outcome = "ok"
       /\ borrowings'[b].status = "RETURNED"

FailedBorrowLeavesNoBorrowing ==
  [][(last'.op = "borrow" /\ last'.outcome # "ok") =>
       /\ borrowings' = borrowings
       /\ nextBorrowingId' = nextBorrowingId]_vars

\* C10: returnBook of an open Borrowing whose Book is gone, or whose Book
\* lookup or update throws, still succeeds: the Borrowing becomes RETURNED with
\* a returnedDate, the caller gets no error and no Book is created or changed.
ReturnSurvivesBookFailure ==
  [][(/\ last'.op = "returnBook"
      /\ last'.arg \in DOMAIN borrowings
      /\ borrowings[last'.arg].status \in OpenStatus
      /\ \/ borrowings[last'.arg].bookId \notin DOMAIN books
         \/ last'.fault \in TryBlockFaults) =>
       /\ last'.outcome = "ok"
       /\ borrowings'[last'.arg].status = "RETURNED"
       /\ borrowings'[last'.arg].returnedDate # NoDate
       /\ books' = books]_vars

ReturnedWhileBookUpdateFailed ==
  /\ last.op = "returnBook" /\ last.outcome = "ok"
  /\ last.fault \in TryBlockFaults
  /\ borrowings[last.arg].status = "RETURNED"
  /\ borrowings[last.arg].bookId \in DOMAIN books
  /\ ~books[borrowings[last.arg].bookId].available

\* C11: one run of the overdue sweep that no storage failure cuts short sets
\* status OVERDUE for exactly the Borrowings that were BORROWED with
\* now > dueDate when it started and leaves the status of every other
\* Borrowing unchanged; a run that a storage failure cuts short changes the
\* status of no Borrowing outside that set.
SweepMarksExactlyPastDue ==
  [][last'.op = "sweep" =>
       /\ DOMAIN borrowings' = DOMAIN borrowings
       /\ \A b \in DOMAIN borrowings :
            LET due == borrowings[b].status = "BORROWED"
                         /\ now > borrowings[b].dueDate
            IN /\ last'.fault = "none" =>
                    borrowings'[b].status =
                      IF due THEN "OVERDUE" ELSE borrowings[b].status
               /\ borrowings'[b].status # borrowings[b].status =>
                    due /\ borrowings'[b].status = "OVERDUE"]_vars

SweptOneLeftOne ==
  /\ last.op = "sweep" /\ last.fault = "none"
  /\ \E b \in DOMAIN borrowings :
       borrowings[b].status = "OVERDUE" /\ now > borrowings[b].dueDate
  /\ \E b \in DOMAIN borrowings :
       borrowings[b].status = "BORROWED" /\ now <= borrowings[b].dueDate

\* C12: a run of the overdue sweep that comes right after a run that no
\* storage failure cut short, with no time elapsed and no operation in
\* between, transitions no Borrowing and leaves the storage as the first run
\* left it.
SecondSweepChangesNothing ==
  [][(/\ last.op = "sweep" /\ last.fault = "none"
      /\ last'.op = "sweep" /\ last'.again) =>
       /\ borrowings' = borrowings
       /\ books' = books]_vars

SweptTwice ==
  /\ last.op = "sweep" /\ last.again /\ last.fault = "none"
  /\ \E b \in DOMAIN borrowings :
       borrowings[b].status = "OVERDUE" /\ now > borrowings[b].dueDate
  /\ \E b \in DOMAIN borrowings : borrowings[b].status = "RETURNED"

\* C13: a Borrowing becomes OVERDUE only in a run of the overdue sweep: no
\* borrow, returnBook or Book Store operation creates a Borrowing with status
\* OVERDUE or moves one to OVERDUE.
OnlySweepWritesOverdue ==
  [][\A b \in DOMAIN borrowings' :
       (/\ borrowings'[b].status = "OVERDUE"
        /\ b \in DOMAIN borrowings => borrowings[b].status # "OVERDUE") =>
         last'.op = "sweep"]_vars

SweepWroteOverdueAfterReturn ==
  /\ last.op = "sweep" /\ ~last.again
  /\ \E b \in DOMAIN borrowings : borrowings[b].status = "OVERDUE"
  /\ \E b \in DOMAIN borrowings :
       borrowings[b].status = "RETURNED" /\ now > borrowings[b].dueDate

\* The recurring timer can start a run of the sweep.
SweepCanRun == ENABLED (\E f \in SweepFaults : CheckOverdueBooks(f))

\* C14: a storage failure in a run of the sweep, on the load or on a save, is
\* caught in the run: no error leaves it, the sweep can run again in every
\* state, the rows the run saved as OVERDUE stay OVERDUE, every Borrowing
\* that was BORROWED and past due is OVERDUE or still BORROWED and past due
\* after it, nothing else changes, and a later run that meets no failure
\* leaves no Borrowing BORROWED and past due.
SweepFailureIsContained ==
  /\ []SweepCanRun
  /\ [][last'.op = "sweep" =>
          /\ last'.outcome = "ok"
          /\ books' = books
          /\ DOMAIN borrowings' = DOMAIN borrowings
          /\ \A b \in DOMAIN borrowings :
               /\ borrowings[b].status = "OVERDUE" =>
                    borrowings'[b].status = "OVERDUE"
               /\ (borrowings[b].status = "BORROWED"
                      /\ now > borrowings[b].dueDate) =>
                    \/ borrowings'[b].status = "OVERDUE"
                    \/ borrowings'[b] = borrowings[b]
               /\ last'.fault = "none" =>
                    ~(borrowings'[b].status = "BORROWED"
                        /\ now' > borrowings'[b].dueDate)]_vars

SweepCutShortAfterOneSave ==
  /\ last.op = "sweep" /\ last.fault = "save" /\ last.outcome = "ok"
  /\ \E b \in DOMAIN borrowings : borrowings[b].status = "OVERDUE"
  /\ \E b \in DOMAIN borrowings :
       borrowings[b].status = "BORROWED" /\ now > borrowings[b].dueDate

\* C15: with the sweep timer weakly fair and storage failures that do not
\* last forever, every Borrowing that is BORROWED with its dueDate in the
\* past becomes OVERDUE or RETURNED at some later point.
PastDueLeadsToOverdueOrReturned ==
  \A b \in BorrowingIdInputs :
    (/\ b \in DOMAIN borrowings
     /\ borrowings[b].status = "BORROWED"
     /\ now > borrowings[b].dueDate)
      ~> (/\ b \in DOMAIN borrowings
          /\ borrowings[b].status \in {"OVERDUE", "RETURNED"})

PastDueAfterFailedSweep ==
  /\ last.op = "sweep" /\ last.fault = "find"
  /\ \E b \in DOMAIN borrowings :
       borrowings[b].status = "BORROWED" /\ now > borrowings[b].dueDate

\* C16: two borrow calls for the same Book that both read the Book as
\* available, the second before the first has written the flag, both
\* succeed: each has saved its own Borrowing and the Book has two open
\* Borrowings.
BothPassedCheckBothSucceed ==
  \A c \in DOMAIN calls, d \in DOMAIN calls :
    (/\ c # d
     /\ calls[c].dto.bookId = calls[d].dto.bookId
     /\ calls[c].pc = "done" /\ calls[d].pc = "done"
     /\ calls[c].book.available /\ calls[d].book.available) =>
      /\ calls[c].outcome = "ok" /\ calls[d].outcome = "ok"
      /\ calls[c].created # calls[d].created
      /\ {calls[c].created, calls[d].created}
            \subseteq OpenBorrowingsOf(calls[c].dto.bookId)

DoubleBooked ==
  \E c \in DOMAIN calls, d \in DOMAIN calls :
    /\ c # d
    /\ calls[c].outcome = "ok" /\ calls[d].outcome = "ok"
    /\ calls[c].dto.bookId = calls[d].dto.bookId
    /\ Cardinality(OpenBorrowingsOf(calls[c].dto.bookId)) = 2
    /\ ~books[calls[c].dto.bookId].available

\* C17: in every reachable state no two distinct Books have the same isbn.
IsbnUnique ==
  \A a \in DOMAIN books, b \in DOMAIN books :
    a # b => books[a].isbn # books[b].isbn

TwoBooksIsbnUpdateRejected ==
  /\ Cardinality(DOMAIN books) = 2
  /\ last.op = "updateBook" /\ last.outcome = "BadRequest"

\* C18: Book create with the isbn of an existing Book fails with BadRequest,
\* adds no Book and changes no record: every existing Book is still there
\* with all its fields.
DuplicateIsbnCreateRejected ==
  [][\A dto \in CreateBookDtos, f \in CreateBookFaults :
       (/\ last'.op = "createBook"
        /\ \E k \in DOMAIN books : books[k].isbn = dto.isbn
        /\ CreateBook(dto, f)) =>
         /\ last'.outcome = "BadRequest"
         /\ books' = books
         /\ nextBookId' = nextBookId
         /\ borrowings' = borrowings]_vars

DuplicateIsbnCreateFailed ==
  /\ last.op = "createBook" /\ last.outcome = "BadRequest"
  /\ Cardinality(DOMAIN books) = 1

\* C19: Book update(id, patch) fails with NotFound and changes nothing when
\* no Book has the id; fails with BadRequest and changes nothing when
\* patch.isbn is the isbn of another Book; and when patch.isbn is the Book's
\* own isbn, or the patch has no isbn, it is not rejected and the fields of
\* the patch are merged into the Book (nothing changes if the save throws,
\* as it does for a patch whose authorId is the id of no Author).
UpdateChecksThenMerges ==
  [][\A id \in BookIdInputs, dto \in UpdateBookDtos, f \in UpdateBookFaults :
       (last'.op = "updateBook" /\ last'.arg = id /\ UpdateBook(id, dto, f)) =>
         LET clash == /\ "isbn" \in DOMAIN dto
                      /\ \E o \in DOMAIN books \ {id} :
                           books[o].isbn = dto.isbn
         IN /\ id \notin DOMAIN books =>
                 last'.outcome = "NotFound" /\ books' = books
            /\ (id \in DOMAIN books /\ clash) =>
                 last'.outcome = "BadRequest" /\ books' = books
            /\ (id \in DOMAIN books /\ ~clash) =>
                 /\ last'.outcome \in {"ok", "Error"}
                 /\ (/\ f = "none"
                     /\ "authorId" \in DOMAIN dto =>
                          dto.authorId \in DOMAIN authors)
                      => last'.outcome = "ok"
                 /\ last'.outcome = "Error" => books' = books
                 /\ last'.outcome = "ok" =>
                      /\ DOMAIN books' = DOMAIN books
                      /\ \A o \in DOMAIN books \ {id} : books'[o] = books[o]
                      /\ \A k \in DOMAIN books[id] :
                           books'[id][k] =
                             IF k \in DOMAIN dto THEN dto[k] ELSE books[id][k]]_vars

OwnIsbnUpdateMerged ==
  /\ last.op = "updateBook" /\ last.outcome = "ok"
  /\ Cardinality(DOMAIN books) = 2
  /\ DOMAIN borrowings = {}
  /\ ~books[last.arg].available

NonPositiveBorrowDaysRejected ==
  /\ [](\A b \in DOMAIN borrowings :
          borrowings[b].dueDate > borrowings[b].borrowedDate)
  /\ [][last'.op = "borrow" =>
          \A dto \in CreateBorrowingDtos, f \in BorrowFaults :
            ("borrowDays" \in DOMAIN dto /\ dto.borrowDays < 1 /\ Borrow(dto, f))
              => /\ last'.outcome = "BadRequest"
                 /\ borrowings' = borrowings
                 /\ books' = books]_vars

BorrowDaysBelowOneRejected ==
  /\ last.op = "borrow" /\ last.outcome = "BadRequest"
  /\ last.fault = "min"
  /\ last.arg \in DOMAIN books /\ books[last.arg].available

\* C25: on a successful returnBook at time now, wasOverdue is true exactly
\* when the Borrowing was OVERDUE before the call or now > dueDate, and
\* daysLate is floor((now - dueDate) / 1 day) when wasOverdue and 0 otherwise.
WasOverdueAndDaysLate ==
  [][\A id \in BorrowingIdInputs :
       (/\ last'.op = "returnBook" /\ last'.arg = id /\ last'.outcome = "ok")
         => LET b == borrowings[id]
                late == b.status = "OVERDUE" \/ now > b.dueDate
            IN /\ last'.wasOverdue = late
               /\ last'.daysLate =
                    IF late THEN (now - b.dueDate) \div TicksPerDay ELSE 0
               /\ (b.borrowedDate = ToDateColumn(now)) => ~last'.wasOverdue]_vars

\* borrowDays = 1, the clock advanced by two days, a sweep, then the return.
ReturnedOneDayLate ==
  /\ last.op = "returnBook" /\ last.outcome = "ok"
  /\ last.wasOverdue /\ last.daysLate = 1
  /\ borrowings[last.arg].dueDate =
       borrowings[last.arg].borrowedDate + TicksPerDay
  /\ now = borrowings[last.arg].borrowedDate + 2 * TicksPerDay

\* C26 as stated: delete(id) of a Book removes exactly that Book, fails with
\* NotFound when it is absent, and succeeds whatever Borrowings refer to the
\* Book, leaving every Borrowing unchanged.
BookDeleteIgnoresBorrowings ==
  [][\A id \in BookIdInputs :
       (last'.op = "removeBook" /\ last'.arg = id /\ RemoveBook(id, "none")) =>
         /\ id \notin DOMAIN books =>
              last'.outcome = "NotFound" /\ books' = books
         /\ id \in DOMAIN books =>
              /\ last'.outcome = "ok"
              /\ books' = [k \in DOMAIN books \ {id} |-> books[k]]
         /\ borrowings' = borrowings]_vars

\* C26: delete(id) of a Book fails with NotFound when it is absent and removes
\* exactly that Book when no Borrowing refers to it; the delete of a Book that
\* a Borrowing refers to fails with an error of the storage and changes
\* nothing; no delete changes a Borrowing.
BookDeleteStoppedByBorrowings ==
  [][\A id \in BookIdInputs :
       (last'.op = "removeBook" /\ last'.arg = id /\ RemoveBook(id, "none")) =>
         LET referenced == \E b \in DOMAIN borrowings : borrowings[b].bookId = id
         IN /\ id \notin DOMAIN books =>
                 last'.outcome = "NotFound" /\ books' = books
            /\ (id \in DOMAIN books /\ ~referenced) =>
                 /\ last'.outcome = "ok"
                 /\ books' = [k \in DOMAIN books \ {id} |-> books[k]]
            /\ (id \in DOMAIN books /\ referenced) =>
                 last'.outcome = "Error" /\ books' = books
            /\ borrowings' = borrowings]_vars

BorrowedBookDeleteFailed ==
  /\ last.op = "removeBook" /\ last.outcome = "Error"
  /\ last.fault = "foreignKey"
  /\ last.arg \in DOMAIN books
  /\ OpenBorrowingsOf(last.arg) # {}

CreateDefaultsToAvailable ==
  /\ [][(last'.op = "createBook" /\ last'.outcome = "ok") =>
          \A dto \in CreateBookDtos :
            CreateBook(dto, "none") =>
              books'[last'.created].available =
                (IF "available" \in DOMAIN dto THEN dto.available ELSE TRUE)]_vars
  /\ [](\A k \in DOMAIN books :
          (books[k].available /\ nextBorrowingId <= MaxBorrowings) =>
            \E dto \in CreateBorrowingDtos :
              /\ dto.bookId = k
              /\ ENABLED (Borrow(dto, "none") /\ last'.outcome = "ok"))

CreatedUnavailableNextToBorrowed ==
  /\ last.op = "createBook" /\ last.outcome = "ok"
  /\ ~books[last.created].available
  /\ \E k \in DOMAIN books \ {last.created} : OpenBorrowingsOf(k) # {}

\* C29: update(id, {available: true}) of a Book that has an open Borrowing
\* succeeds, sets available to true and leaves the Borrowings unchanged; the
\* Book is then available while an open Borrowing refers to it, and a borrow
\* of it is accepted and gives it one more open Borrowing.
UpdateOverridesAvailability ==
  /\ [][\A id \in BookIdInputs :
          (/\ last'.op = "updateBook" /\ last'.arg = id
           /\ id \in DOMAIN books /\ OpenBorrowingsOf(id) # {}
           /\ UpdateBook(id, [available |-> TRUE], "none"))
            => /\ last'.outcome = "ok"
               /\ books'[id] = [books[id] EXCEPT !.available = TRUE]
               /\ borrowings' = borrowings]_vars
  /\ [](\A k \in DOMAIN books :
          (/\ books[k].available /\ OpenBorrowingsOf(k) # {}
           /\ nextBorrowingId <= MaxBorrowings) =>
            \E dto \in CreateBorrowingDtos :
              /\ dto.bookId = k
              /\ ENABLED (/\ Borrow(dto, "none")
                          /\ last'.outcome = "ok"
                          /\ Cardinality(OpenBorrowingsOf(k)') =
                               Cardinality(OpenBorrowingsOf(k)) + 1))

AvailableWithOpenBorrowing ==
  /\ last.op = "updateBook" /\ last.outcome = "ok"
  /\ books[last.arg].available
  /\ OpenBorrowingsOf(last.arg) # {}
  /\ nextBorrowingId <= MaxBorrowings

SweepSaveKeepsReturned ==
  [][\A b \in BorrowingIdInputs :
       (SweepSave(b) /\ borrowings[b].status = "RETURNED")
         => /\ borrowings'[b].status = "RETURNED"
            /\ borrowings'[b].returnedDate = borrowings[b].returnedDate]_vars


\* The returnBook calls in flight or finished.
ReturnCalls == {c \in DOMAIN calls : calls[c].op = "returnBook"}

\* C32: of two returnBook calls that both found the same Borrowing, interleaved
\* at their storage awaits, exactly one succeeds and the other fails with
\* BadRequest; a returnBook save never writes over a returnedDate that is
\* already set, and the availability update of a returnBook never marks a Book
\* available that has an open Borrowing.
ConcurrentReturnsOneSucceeds ==
  /\ [](\A c, d \in ReturnCalls :
          (/\ c # d
           /\ calls[c].id = calls[d].id
           /\ calls[c].row # NoBorrowing /\ calls[d].row # NoBorrowing
           /\ calls[c].pc = "done" /\ calls[d].pc = "done")
            => {calls[c].outcome, calls[d].outcome} = {"ok", "BadRequest"})
  /\ [][\A c \in CallIds :
          /\ ReturnSaveBorrowing(c)
               => borrowings[calls[c].id].returnedDate = NoDate
          /\ ReturnUpdateSave(c)
               => OpenBorrowingsOf(calls[c].row.bookId) = {}]_vars


\* C33: the save of a Book update changes only the fields its patch carries;
\* in particular an update whose patch has no available leaves the stored
\* available flag as it is, also when a borrow or a returnBook has changed
\* the flag between the update's read and its save.
UpdateSaveWritesPatchOnly ==
  [][\A c \in {UpdateCallId} :
       (UpdateSave(c) /\ calls[c].id \in DOMAIN books)
         => \A field \in {"isbn", "authorId", "available"} \ DOMAIN calls[c].dto :
              books'[calls[c].id][field] = books[calls[c].id][field]]_vars


\* What a step leaves alone when it writes nothing but the status of
\* Borrowings: every Book, the set of Borrowings, and bookId, borrowerName,
\* borrowedDate, dueDate and returnedDate of each Borrowing.
OnlyStatusWritten ==
  /\ books' = books
  /\ DOMAIN borrowings' = DOMAIN borrowings
  /\ \A b \in DOMAIN borrowings :
       [borrowings'[b] EXCEPT !.status = borrowings[b].status] = borrowings[b]

\* C34: a sweep run changes nothing but the status of the Borrowings it
\* transitions: each of its storage steps leaves every Book, the set of
\* Borrowings and the bookId, borrowerName, borrowedDate, dueDate and
\* returnedDate of every Borrowing as they are.
SweepWritesStatusOnly ==
  [][(SweepFind \/ \E b \in BorrowingIdInputs : SweepSave(b))
       => OnlyStatusWritten]_vars


\* C35: the clock only moves forward, and every Borrowing in status OVERDUE
\* has its dueDate strictly before the current time; a returnBook of an
\* OVERDUE Borrowing therefore reports wasOverdue with a daysLate of zero or
\* more.
OverdueIsPastDue ==
  /\ [][now' >= now]_vars
  /\ [](\A b \in DOMAIN borrowings :
          borrowings[b].status = "OVERDUE" => borrowings[b].dueDate < now)
  /\ [][\A id \in BorrowingIdInputs :
          (/\ last'.op = "returnBook" /\ last'.arg = id /\ last'.outcome = "ok"
           /\ borrowings[id].status = "OVERDUE")
            => last'.wasOverdue /\ last'.daysLate >= 0]_vars

\* A sweep has marked a Borrowing OVERDUE a full day after its dueDate: its
\* return reports one day late.
OverdueOneDayPastDue ==
  /\ last.op = "sweep"
  /\ \E b \in DOMAIN borrowings :
       /\ borrowings[b].status = "OVERDUE"
       /\ borrowings[b].dueDate < now
       /\ DaysLate(borrowings[b], now) = 1


\* C36: in the state a completed seedDatabase leaves, a Book is unavailable
\* exactly when a Borrowing with status BORROWED or OVERDUE refers to it and
\* no Book has more than one such Borrowing; the backdated loans are stored
\* as given (an OVERDUE loan due before the seed time, a RETURNED loan
\* returned before it); and a sweep run leaves the seeded OVERDUE and RETURNED
\* loans as they are.
SeedStateIsCoupled ==
  /\ []((last.op = "seed" /\ last.outcome = "ok")
          => /\ \A k \in DOMAIN books :
                  (~books[k].available) <=> (OpenBorrowingsOf(k) # {})
             /\ \A k \in DOMAIN books : Cardinality(OpenBorrowingsOf(k)) <= 1
             /\ borrowings = SeedBorrowings(now)
             /\ \E b \in DOMAIN borrowings :
                  /\ borrowings[b].status = "OVERDUE"
                  /\ borrowings[b].borrowedDate < borrowings[b].dueDate
                  /\ borrowings[b].dueDate < ToDateColumn(now)
             /\ \E b \in DOMAIN borrowings :
                  /\ borrowings[b].status = "RETURNED"
                  /\ borrowings[b].dueDate < borrowings[b].returnedDate
                  /\ borrowings[b].returnedDate < ToDateColumn(now))
  /\ [][(\E f \in SweepFaults : CheckOverdueBooks(f))
          => \A b \in DOMAIN borrowings :
               borrowings[b].status \in {"OVERDUE", "RETURNED"}
                 => borrowings'[b] = borrowings[b]]_vars

\* The first sweep after a completed seed has run: the three seeded loans and
\* the availability of the seeded books are what the seed stored.
SeededThenSwept ==
  /\ last.op = "sweep" /\ last.outcome = "ok" /\ ~last.again
  /\ borrowings = SeedBorrowings(now)
  /\ Cardinality(DOMAIN borrowings) = 3
  /\ books = SetUnavailable(SeedBooks, BorrowedBookIds(borrowings))
  /\ ~books[FindBookByTitle("Great Expectations")].available
  /\ ~books[FindBookByTitle("1984")].available
  /\ books[FindBookByTitle("The Great Gatsby")].available

====
